---- MODULE Spec2Model ----
(***************************************************************************)
(* A model of repo_concatenate.py: the directory walk and its filters, the *)
(* folder tree, the statistics and the three passes of main().             *)
(*                                                                         *)
(* A path is the sequence of its components: './sub/a.txt' is              *)
(* <<".", "sub", "a.txt">>, so os.path.join(root, name) is Append,         *)
(* os.path.basename is the last component and os.path.relpath(p, '.') is   *)
(* Tail(p).  The path 'root.txt' (no leading './') is <<"root.txt">>.      *)
(*                                                                         *)
(* The box-drawing glyphs of the folder tree are written in ASCII:         *)
(*   "|-- " for U+251C U+2500 U+2500 ' '   (a sibling that is not last)    *)
(*   "+-- " for U+2514 U+2500 U+2500 ' '   (the last sibling)              *)
(*   "|   " for U+2502 and three spaces    (under a non-last ancestor)     *)
(***************************************************************************)
EXTENDS Integers, Sequences, FiniteSets, TLC

VARIABLES
    dirs,             \* the directories of the filesystem (paths), root included
    files,            \* the regular files of the filesystem (paths)
    unreadable,       \* paths whose open()/scandir() raises PermissionError
    scanOrder,        \* the order in which os.scandir lists names (not sorted)
    pc,               \* main()'s position
    gitignore,        \* the matcher parse_gitignore returned
    folder_structure, \* main: list(get_folder_structure(...)), with each line's entry
    relevant_files,   \* calculate_statistics: get_relevant_files(...)
    file_index,       \* main: the file index entries
    file_number,      \* main: the running number
    queue,            \* main: what the content walk has still to yield
    outfile,          \* what has been written to the output file, in order
    scanned,          \* directories listed so far by any pass
    opened,           \* input files opened for reading so far
    stat_files,       \* the statistics functions' argument: the files of a list
    spc,              \* "input" while the list is drawn, "done" once computed
    stats             \* calculate_statistics' result for stat_files

vars == <<dirs, files, unreadable, scanOrder, pc, gitignore, folder_structure,
          relevant_files, file_index, file_number, queue, outfile,
          scanned, opened, stat_files, spc, stats>>

-----------------------------------------------------------------------------
(* Bounds of the model *)

MaxNodes == 3

MaxDepth == 3

MaxUnreadable == 1

MaxIgnored == 1

-----------------------------------------------------------------------------
(* Configuration: lines 8-15 *)

REPO_DIR == <<".">>

REPO_NAME == "root"

OUTPUT_FILE_SUFFIX == ".txt"

GITIGNORE_FILENAME == ".gitignore"

OUTPUT_FILE == REPO_NAME \o OUTPUT_FILE_SUFFIX

SCRIPT_NAME == "repo_concatenate.py"

(* The entry names of the model, in the order sorted() gives them (ordinal   *)
(* comparison of the characters: '.' < 'a' < 'b' < 'r' < 's' < 'z', and      *)
(* "re" < "ro").                                                             *)
NameOrder ==
    <<".git", ".gitignore", "a.txt", "b.txt", "repo_concatenate.py", "root.txt", "sub",
      "z.txt">>

Names == {NameOrder[i] : i \in 1..Len(NameOrder)}

(* The names the model gives to regular files and to directories *)
FileNames == Names \ {"sub"}

DirNames == {".git", "root.txt", "sub"}

(* Orders in which a directory listing may come: os.scandir promises none. *)
ScanOrders == {NameOrder,
               <<"sub", "b.txt", "repo_concatenate.py", ".git", "z.txt", "root.txt",
                 "a.txt", ".gitignore">>}

-----------------------------------------------------------------------------
(* Paths *)

join(root, name) == Append(root, name)

basename(path) == path[Len(path)]

relpath(path) == Tail(path)

dirname(path) == SubSeq(path, 1, Len(path) - 1)

IsPrefix(p, q) == Len(p) <= Len(q) /\ SubSeq(q, 1, Len(p)) = p

(* q lies strictly beneath the directory p *)
Beneath(q, p) == Len(p) < Len(q) /\ IsPrefix(p, q)

exists(path) == path \in dirs \cup files

(* os.scandir(path): the names in the directory, in listing order *)
scandir(path) == SelectSeq(scanOrder, LAMBDA n : exists(join(path, n)))

(* A listing that was never sorted *)
unsorted_scandir(path) == scandir(path)

(* sorted(os.scandir(path), key=lambda e: e.name) *)
sorted_scandir(path) == SelectSeq(NameOrder, LAMBDA n : exists(join(path, n)))

RECURSIVE Flatten(_)
Flatten(ss) == IF ss = <<>> THEN <<>> ELSE Head(ss) \o Flatten(Tail(ss))

Range(s) == {s[i] : i \in 1..Len(s)}

Map(s, F(_)) == [i \in 1..Len(s) |-> F(s[i])]

-----------------------------------------------------------------------------
(* The matcher: None, or the function gitignore_parser built.  The library  *)
(* is not part of the program: its function is modelled by the set of paths *)
(* it answers True for.                                                     *)

None == [present |-> FALSE, matched |-> {}]

Matcher(m) == [present |-> TRUE, matched |-> m]

ignored(path) == path \in gitignore.matched

should_include_file(file_path) ==
    /\ file_path # <<OUTPUT_FILE>>
    /\ basename(file_path) # SCRIPT_NAME
    /\ basename(file_path) # GITIGNORE_FILENAME
    /\ (~gitignore.present \/ ~ignored(file_path))

(* Pruning that forgets the '.git' directory *)
prune_dirs_keeps_git(root, ds) ==
    IF gitignore.present
    THEN SelectSeq(ds, LAMBDA d : ~ignored(join(root, d)))
    ELSE ds

(* The loop head of each of the three walks (lines 81-85, 314-318, 332-336): *)
(* what is left of dirs, which is what os.walk then descends into.           *)
prune_dirs(root, ds) ==
    LET noGit == SelectSeq(ds, LAMBDA d : d # ".git")
    IN IF gitignore.present
       THEN SelectSeq(noGit, LAMBDA d : ~ignored(join(root, d)))
       ELSE noGit

(* os.walk(top), top-down, with the caller's in-place pruning of dirs: the  *)
(* sequence of (root, dirs, files).  A directory whose listing fails yields *)
(* nothing (onerror is None).                                               *)
RECURSIVE os_walk(_)
os_walk(top) ==
    IF top \in unreadable THEN <<>>
    ELSE LET entries == scandir(top)
             ds      == SelectSeq(entries, LAMBDA n : join(top, n) \in dirs)
             nondirs == SelectSeq(entries, LAMBDA n : join(top, n) \in files)
             kept    == prune_dirs(top, ds)
         IN <<[root |-> top, dirs |-> kept, files |-> nondirs]>>
            \o Flatten([i \in 1..Len(kept) |-> os_walk(join(top, kept[i]))])

(* The files one walk step passes through should_include_file *)
included_of(step) ==
    SelectSeq([i \in 1..Len(step.files) |-> join(step.root, step.files[i])],
              should_include_file)

walk_included(top) == Flatten(Map(os_walk(top), included_of))

(* The directories a walk lists: the top and every directory left in dirs *)
walk_scanned(top) ==
    {top} \cup UNION {{join(s.root, d) : d \in Range(s.dirs)} : s \in Range(os_walk(top))}

get_relevant_files(repo_dir) == walk_included(repo_dir)

-----------------------------------------------------------------------------
(* The folder tree *)

name_kept(n) ==
    n # ".git" /\ n # OUTPUT_FILE /\ n # SCRIPT_NAME /\ n # GITIGNORE_FILENAME

(* add_to_structure(path, prefix): the lines it yields, each with the entry *)
(* it draws.  A listing that raises is reported and yields nothing.         *)
RECURSIVE add_to_structure(_, _)
add_to_structure(path, prefix) ==
    IF path \in unreadable THEN <<>>
    ELSE LET byName  == SelectSeq(sorted_scandir(path), name_kept)
             entries == IF gitignore.present
                        THEN SelectSeq(byName, LAMBDA n : ~ignored(join(path, n)))
                        ELSE byName
             lines(i) ==
                 LET n       == entries[i]
                     is_last == (i = Len(entries))
                     conn    == IF is_last THEN "+-- " ELSE "|-- "
                 IN IF join(path, n) \in dirs
                    THEN <<[text |-> prefix \o conn \o n \o "/",
                            path |-> join(path, n), is_dir |-> TRUE]>>
                         \o add_to_structure(join(path, n),
                                prefix \o (IF is_last THEN "    " ELSE "|   "))
                    ELSE <<[text |-> prefix \o conn \o n,
                            path |-> join(path, n), is_dir |-> FALSE]>>
         IN Flatten([i \in 1..Len(entries) |-> lines(i)])

get_folder_structure(start_path) ==
    <<[text |-> REPO_NAME \o "/", path |-> start_path, is_dir |-> TRUE]>>
    \o add_to_structure(start_path, "")

-----------------------------------------------------------------------------
(* The statistics (lines 129-252).  A file of the list is a record: its     *)
(* path, its size in bytes, its number of lines, and whether os.path.getsize *)
(* and open() succeed on it ("ok"), open() raises ("noopen": no read        *)
(* permission) or both raise ("missing": deleted since the walk, or a       *)
(* dangling link).                                                          *)

MaxFiles == 3

MaxSize == 2

StatPaths == {<<".", "a.py">>, <<".", "sub", "a.py">>, <<".", "Makefile">>}

(* os.path.splitext(path)[1] for the names of StatPaths *)
splitext(path) == IF basename(path) = "a.py" THEN ".py" ELSE ""

can_stat(f) == f.status # "missing"

can_open(f) == f.status = "ok"

RECURSIVE count_total_lines(_)
count_total_lines(fl) ==
    IF fl = <<>> THEN 0
    ELSE (IF can_open(Head(fl)) THEN Head(fl).lines ELSE 0) + count_total_lines(Tail(fl))

count_lines_per_file_type(fl) ==
    [ext \in {splitext(f.path) : f \in {g \in Range(fl) : can_open(g)}} |->
        count_total_lines(SelectSeq(fl, LAMBDA f : splitext(f.path) = ext))]

count_files_per_type(fl) ==
    [ext \in {splitext(f.path) : f \in Range(fl)} |->
        Len(SelectSeq(fl, LAMBDA f : splitext(f.path) = ext))]

RECURSIVE sum_sizes(_)
sum_sizes(fl) == IF fl = <<>> THEN 0 ELSE Head(fl).size + sum_sizes(Tail(fl))

(* An average that divides whatever the length *)
average_without_guard(fl) ==
    IF \E f \in Range(fl) : ~can_stat(f) THEN [num |-> 0, den |-> 1]
    ELSE [num |-> sum_sizes(fl), den |-> Len(fl)]

(* The average is total_size / len: kept as the fraction, 0 as 0/1.  The one *)
(* try block spans the whole sum, so any getsize that raises makes it 0.     *)
calculate_average_file_size(fl) ==
    IF \E f \in Range(fl) : ~can_stat(f) THEN [num |-> 0, den |-> 1]
    ELSE IF fl # <<>> THEN [num |-> sum_sizes(fl), den |-> Len(fl)]
    ELSE [num |-> 0, den |-> 1]

initial_largest == [name |-> "", size |-> 0, lines |-> 0]

RECURSIVE largest_from(_, _)
largest_from(largest_file, fl) ==
    IF fl = <<>> THEN largest_file
    ELSE LET f == Head(fl)
         IN largest_from(
                IF can_stat(f) /\ f.size > largest_file.size /\ can_open(f)
                THEN [name |-> basename(f.path), size |-> f.size, lines |-> f.lines]
                ELSE largest_file,
                Tail(fl))

find_largest_file(fl) == largest_from(initial_largest, fl)

calculate_statistics(fl) ==
    [total_files         |-> Len(fl),
     total_lines         |-> count_total_lines(fl),
     lines_per_file_type |-> count_lines_per_file_type(fl),
     files_per_type      |-> count_files_per_type(fl),
     average_file_size   |-> calculate_average_file_size(fl),
     largest_file        |-> find_largest_file(fl)]

stat_vars == <<stat_files, spc, stats>>

-----------------------------------------------------------------------------
(* What is written to the output file *)

Item(t, num, path) == [t |-> t, num |-> num, path |-> path]

-----------------------------------------------------------------------------
(* The directory before the run: any tree within the bounds *)

Init ==
    /\ dirs = {REPO_DIR}
    /\ files = {}
    /\ unreadable = {}
    /\ scanOrder \in ScanOrders
    /\ pc = "setup"
    /\ gitignore = None
    /\ folder_structure = <<>>
    /\ relevant_files = <<>>
    /\ file_index = <<>>
    /\ file_number = 1
    /\ queue = <<>>
    /\ outfile = <<>>
    /\ scanned = {}
    /\ opened = {}
    /\ stat_files = <<>>
    /\ spc = "input"
    /\ stats = calculate_statistics(<<>>)

run_vars == <<pc, gitignore, folder_structure, relevant_files, file_index,
              file_number, queue, outfile, scanned, opened>>

CanAdd(p) ==
    /\ pc = "setup"
    /\ ~exists(p)
    /\ Len(p) - 1 <= MaxDepth
    /\ Cardinality(dirs \cup files) - 1 < MaxNodes

CreateFile ==
    \E parent \in dirs, n \in FileNames :
        /\ CanAdd(join(parent, n))
        /\ files' = files \cup {join(parent, n)}
        /\ UNCHANGED <<dirs, unreadable, scanOrder, run_vars, stat_vars>>

MkDir ==
    \E parent \in dirs, n \in DirNames :
        /\ CanAdd(join(parent, n))
        /\ dirs' = dirs \cup {join(parent, n)}
        /\ UNCHANGED <<files, unreadable, scanOrder, run_vars, stat_vars>>

Chmod ==
    \E p \in (dirs \cup files) \ {REPO_DIR} :
        /\ pc = "setup"
        /\ p \notin unreadable
        /\ Cardinality(unreadable) < MaxUnreadable
        /\ unreadable' = unreadable \cup {p}
        /\ UNCHANGED <<dirs, files, scanOrder, run_vars, stat_vars>>

fs_vars == <<dirs, files, unreadable, scanOrder>>

-----------------------------------------------------------------------------
(* main() *)

gitignore_path == join(REPO_DIR, GITIGNORE_FILENAME)

(* lines 294-299, parse_gitignore (32-47): a matcher when the rules file can *)
(* be read, None when it is absent or reading it raises                      *)
ParseGitignore ==
    /\ pc = "setup"
    /\ IF gitignore_path \in files \ unreadable
       THEN \E m \in SUBSET ((dirs \cup files \cup {join(REPO_DIR, OUTPUT_FILE)}) \ {REPO_DIR}) :
               /\ Cardinality(m) <= MaxIgnored
               /\ gitignore' = Matcher(m)
       ELSE gitignore' = None
    /\ pc' = "tree"
    /\ UNCHANGED <<stat_vars, fs_vars, folder_structure, relevant_files, file_index,
                   file_number, queue, outfile, scanned, opened>>

(* line 301 *)
FolderStructure ==
    /\ pc = "tree"
    /\ folder_structure' = get_folder_structure(REPO_DIR)
    /\ scanned' = scanned \cup {r.path : r \in {x \in Range(get_folder_structure(REPO_DIR)) : x.is_dir}}
    /\ pc' = "stats"
    /\ UNCHANGED <<stat_vars, fs_vars, gitignore, relevant_files, file_index, file_number,
                   queue, outfile, opened>>

(* line 302: the list the statistics are computed from.  The numbers that   *)
(* calculate_statistics derives from the list are those of SpecStats below. *)
CalculateStatistics ==
    /\ pc = "stats"
    /\ relevant_files' = get_relevant_files(REPO_DIR)
    /\ scanned' = scanned \cup walk_scanned(REPO_DIR)
    /\ opened' = opened \cup (Range(get_relevant_files(REPO_DIR)) \ unreadable)
    /\ pc' = "open"
    /\ UNCHANGED <<stat_vars, fs_vars, gitignore, folder_structure, file_index, file_number,
                   queue, outfile>>

out_path == join(REPO_DIR, OUTPUT_FILE)

(* lines 304-308: open(OUTPUT_FILE, 'w') creates or truncates the file in the *)
(* directory being walked; on a directory of that name it raises, and main    *)
(* exits (356-357).                                                           *)
OpenOutput ==
    /\ pc = "open"
    /\ \/ /\ out_path \notin dirs
          /\ files' = files \cup {out_path}
          /\ outfile' = <<Item("stats", Len(relevant_files), <<>>),
                          Item("tree", Len(folder_structure), <<>>)>>
          /\ pc' = "index"
       \/ /\ out_path \in dirs
          /\ UNCHANGED <<files, outfile>>
          /\ pc' = "failed"
    /\ UNCHANGED <<stat_vars, dirs, unreadable, scanOrder, gitignore, folder_structure,
                   relevant_files, file_index, file_number, queue, scanned, opened>>

(* lines 310-329: the index walk, numbering from 1 *)
number_from_one(paths) == [i \in 1..Len(paths) |-> Item("index", i, relpath(paths[i]))]

IndexWalk ==
    /\ pc = "index"
    /\ file_index' = number_from_one(walk_included(REPO_DIR))
    /\ outfile' = outfile \o number_from_one(walk_included(REPO_DIR))
    /\ scanned' = scanned \cup walk_scanned(REPO_DIR)
    /\ file_number' = 1
    /\ queue' = walk_included(REPO_DIR)
    /\ pc' = "content"
    /\ UNCHANGED <<stat_vars, fs_vars, gitignore, folder_structure, relevant_files, opened>>

(* lines 337-353: one included file of the content walk *)
ContentFile ==
    /\ pc = "content"
    /\ queue # <<>>
    /\ LET file_path == Head(queue)
           rel_path  == relpath(file_path)
       IN \/ /\ file_path \notin unreadable
             /\ outfile' = outfile \o <<Item("header", file_number, rel_path),
                                        Item("body", file_number, rel_path),
                                        Item("footer", file_number, rel_path)>>
             /\ opened' = opened \cup {file_path}
             /\ file_number' = file_number + 1
          \/ /\ file_path \in unreadable
             /\ UNCHANGED <<outfile, opened, file_number>>
    /\ queue' = Tail(queue)
    /\ UNCHANGED <<stat_vars, fs_vars, pc, gitignore, folder_structure, relevant_files,
                   file_index, scanned>>

(* line 355 *)
Finish ==
    /\ pc = "content"
    /\ queue = <<>>
    /\ pc' = "done"
    /\ UNCHANGED <<stat_vars, fs_vars, gitignore, folder_structure, relevant_files,
                   file_index, file_number, queue, outfile, scanned, opened>>

Next ==
    \/ CreateFile
    \/ MkDir
    \/ Chmod
    \/ ParseGitignore
    \/ FolderStructure
    \/ CalculateStatistics
    \/ OpenOutput
    \/ IndexWalk
    \/ ContentFile
    \/ Finish

Spec == Init /\ [][Next]_vars

-----------------------------------------------------------------------------
(* The statistics functions on any list of files within the bounds *)

main_vars == <<fs_vars, run_vars>>

StatsInit ==
    /\ Init
    /\ scanOrder = NameOrder

AddStatFile ==
    \E p \in StatPaths, size \in 0..MaxSize, status \in {"ok", "noopen", "missing"} :
      \E lines \in (IF size = 0 THEN {0} ELSE 1..size) :
        /\ spc = "input"
        /\ Len(stat_files) < MaxFiles
        /\ \A f \in Range(stat_files) : f.path # p
        /\ stat_files' = Append(stat_files,
               [path |-> p, size |-> size, lines |-> lines, status |-> status])
        /\ UNCHANGED <<spc, stats, main_vars>>

Calculate ==
    /\ spc = "input"
    /\ stats' = calculate_statistics(stat_files)
    /\ spc' = "done"
    /\ UNCHANGED <<stat_files, main_vars>>

StatsNext ==
    \/ AddStatFile
    \/ Calculate

SpecStats == StatsInit /\ [][StatsNext]_vars

-----------------------------------------------------------------------------
(* What a run produced *)

stats_paths == [i \in 1..Len(relevant_files) |-> relpath(relevant_files[i])]

index_paths == [i \in 1..Len(file_index) |-> file_index[i].path]

headers == SelectSeq(outfile, LAMBDA it : it.t = "header")

content_paths == [i \in 1..Len(headers) |-> headers[i].path]

tree_entries == {folder_structure[i] : i \in 2..Len(folder_structure)}

tree_paths == {r.path : r \in tree_entries}

tree_files == {r.path : r \in {x \in tree_entries : ~x.is_dir}}

script_path == join(REPO_DIR, SCRIPT_NAME)

(* Every path a pass listed, drew, indexed, opened or gave a content block *)
touched ==
    Range(relevant_files) \cup tree_paths \cup scanned \cup opened
    \cup {REPO_DIR \o x : x \in Range(index_paths) \cup Range(content_paths)}

-----------------------------------------------------------------------------
(* C1: at the end of a run the statistics list, the file index and the      *)
(* content blocks name the same files, in the same order.                   *)
C1_ThreePassesAgree ==
    pc = "done" => /\ stats_paths = index_paths
                   /\ index_paths = content_paths

(* C2: the output file, the ignore-rules file and the script are in no      *)
(* filtered set, and should_include_file is False for the path under which  *)
(* the walk meets each of them.                                             *)
C2_SelfExcluded ==
    \A p \in {out_path, gitignore_path, script_path} :
        /\ p \notin Range(relevant_files)
        /\ p \notin tree_paths
        /\ relpath(p) \notin Range(index_paths)
        /\ relpath(p) \notin Range(content_paths)
        /\ (pc # "setup" /\ p \in files) => ~should_include_file(p)

(* A directory the passes are to prune: named '.git', or matched *)
Pruned(d) ==
    /\ d \in dirs \ {REPO_DIR}
    /\ basename(d) = ".git" \/ (gitignore.present /\ ignored(d))

(* C3: a pruned directory (matched by the ignore matcher, or named '.git',  *)
(* matcher or not) is never listed by any pass, and nothing beneath it is   *)
(* in the statistics list, drawn in the tree, indexed, listed, opened or    *)
(* given a content block.                                                   *)
C3_PrunedNeverDescended ==
    \A d \in dirs :
        Pruned(d) => /\ d \notin scanned
                     /\ \A p \in touched : ~Beneath(p, d)

(* A finished run over a directory the matcher matched, with a file in it   *)
(* that no rule matches.                                                    *)
C3_Witness ==
    /\ pc = "done"
    /\ \E d \in dirs :
          /\ gitignore.present /\ ignored(d) /\ basename(d) # ".git"
          /\ d \notin unreadable
          /\ \E f \in files : Beneath(f, d) /\ basename(f) = "a.txt" /\ ~ignored(f)

(* C4: the files the tree draws are the files of the statistics list and    *)
(* the files given a content block.                                         *)
C4_TreeLeavesAreWalkFiles ==
    /\ pc \in {"open", "index", "content", "done", "failed"}
          => tree_files = Range(relevant_files)
    /\ pc = "done"
          => tree_files = {REPO_DIR \o x : x \in Range(content_paths)}

(* C6: the output file is not created or written before every walk and      *)
(* every read of an input file has finished.                                *)
C6_OutputWrittenAtEnd ==
    outfile # <<>> => pc = "done"

(* C10: the index numbers from 1 in order, every content header FILE_k      *)
(* names the path the index lists under k and is followed by its footer,    *)
(* and no two content blocks carry the same number.                         *)
C10_NumbersAgree ==
    /\ \A i \in 1..Len(file_index) : file_index[i].num = i
    /\ \A i \in 1..Len(outfile) :
          outfile[i].t = "header" =>
              /\ \E e \in Range(file_index) :
                    e.num = outfile[i].num /\ e.path = outfile[i].path
              /\ i + 2 <= Len(outfile)
              /\ outfile[i + 2] = Item("footer", outfile[i].num, outfile[i].path)
    /\ \A i, j \in 1..Len(headers) : headers[i].num = headers[j].num => i = j

-----------------------------------------------------------------------------
(* The drawing of the folder tree, stated from the directory itself *)

rank(n) == CHOOSE i \in 1..Len(NameOrder) : NameOrder[i] = n

(* p is left in its directory's listing by the tree's two filters *)
Survives(p) ==
    /\ exists(p)
    /\ name_kept(basename(p))
    /\ ~(gitignore.present /\ ignored(p))

(* p is drawn: it and its ancestors survive, and every ancestor can be listed *)
Drawn(p) ==
    /\ Len(p) >= 2
    /\ \A k \in 2..Len(p) : Survives(SubSeq(p, 1, k))
    /\ \A k \in 1..(Len(p) - 1) : SubSeq(p, 1, k) \notin unreadable

IsLastSibling(p) ==
    \A q \in dirs \cup files :
        (dirname(q) = dirname(p) /\ Survives(q)) => rank(basename(q)) <= rank(basename(p))

RECURSIVE PrefixOf(_)
PrefixOf(p) ==
    IF Len(p) <= 2 THEN ""
    ELSE PrefixOf(dirname(p)) \o (IF IsLastSibling(dirname(p)) THEN "    " ELSE "|   ")

ExpectedLine(p) ==
    PrefixOf(p) \o (IF IsLastSibling(p) THEN "+-- " ELSE "|-- ") \o basename(p)
    \o (IF p \in dirs THEN "/" ELSE "")

(* p comes before q when the tree is read top to bottom: a directory before *)
(* what it holds, siblings (and their subtrees) by name.                    *)
ComesBefore(p, q) ==
    \/ Beneath(q, p)
    \/ \E k \in 2..Len(p) :
          /\ k <= Len(q)
          /\ SubSeq(p, 1, k - 1) = SubSeq(q, 1, k - 1)
          /\ rank(p[k]) < rank(q[k])

(* C8: the tree's first line is the repository name with '/'; the entries   *)
(* drawn are those that survive the filters (and whose ancestors do and can *)
(* be listed); each line is the prefix of its ancestors ("|   " under one   *)
(* that is not the last survivor of its level, four spaces under one that   *)
(* is), then "|-- " or "+-- " for the last survivor, the name, and '/' for  *)
(* a directory; the lines come sorted by name with every directory directly *)
(* above its subtree; root/{a.txt, sub/{b.txt}} gives the four lines.       *)
C8_TreeRendering ==
    pc \notin {"setup", "tree"} =>
        /\ folder_structure[1].text = "root/"
        /\ tree_paths = {p \in dirs \cup files : Drawn(p)}
        /\ \A i \in 2..Len(folder_structure) :
              folder_structure[i].text = ExpectedLine(folder_structure[i].path)
        /\ \A i, j \in 2..Len(folder_structure) :
              i < j => ComesBefore(folder_structure[i].path, folder_structure[j].path)
        /\ (/\ dirs = {REPO_DIR, <<".", "sub">>}
            /\ files \ {out_path} = {<<".", "a.txt">>, <<".", "sub", "b.txt">>}
            /\ unreadable = {})
              => [i \in 1..Len(folder_structure) |-> folder_structure[i].text]
                    = <<"root/", "|-- a.txt", "+-- sub/", "    +-- b.txt">>

(* A run that drew a line under an ancestor that is not the last of its     *)
(* level, from a listing that did not come sorted.                          *)
C8_Witness ==
    /\ pc = "done"
    /\ scanOrder # NameOrder
    /\ \E r \in tree_entries :
          /\ Len(r.path) = 3
          /\ ~IsLastSibling(dirname(r.path))

-----------------------------------------------------------------------------
(* The statistics claims *)

Remove(s, i) == SubSeq(s, 1, i - 1) \o SubSeq(s, i + 1, Len(s))

SameAverage(a, b) == a.num * b.den = b.num * a.den

(* C5: a file whose open or size query fails leaves the results for the     *)
(* other files of the list as they are without it.                          *)
C5_SiblingsUnaffected ==
    spc = "done" =>
        \A i \in 1..Len(stat_files) :
            LET f    == stat_files[i]
                rest == Remove(stat_files, i)
            IN /\ ~can_open(f) =>
                     /\ stats.total_lines = count_total_lines(rest)
                     /\ stats.lines_per_file_type = count_lines_per_file_type(rest)
                     /\ stats.largest_file = find_largest_file(rest)
               /\ ~can_stat(f) =>
                     SameAverage(stats.average_file_size,
                                 calculate_average_file_size(rest))

(* C7: the largest file reported is the first file of the list that has the *)
(* maximal size, with that file's line count (stated for lists on which no  *)
(* call fails).                                                             *)
C7_LargestIsFirstMax ==
    (/\ spc = "done"
     /\ stat_files # <<>>
     /\ \A f \in Range(stat_files) : f.status = "ok") =>
        LET first == CHOOSE i \in 1..Len(stat_files) :
                        /\ \A j \in 1..Len(stat_files) : stat_files[j].size <= stat_files[i].size
                        /\ \A j \in 1..(i - 1) : stat_files[j].size < stat_files[i].size
        IN stats.largest_file = [name  |-> basename(stat_files[first].path),
                                 size  |-> stat_files[first].size,
                                 lines |-> stat_files[first].lines]

(* C9: with no included file the statistics are all zero, the maps are      *)
(* empty, the largest file is the placeholder, and nothing divides by zero. *)
C9_EmptyStatistics ==
    (spc = "done" /\ stat_files = <<>>) =>
        /\ stats.total_files = 0
        /\ stats.total_lines = 0
        /\ stats.average_file_size.den # 0
        /\ stats.average_file_size.num = 0
        /\ DOMAIN stats.lines_per_file_type = {}
        /\ DOMAIN stats.files_per_type = {}
        /\ stats.largest_file = [name |-> "", size |-> 0, lines |-> 0]

(* The statistics of the empty list have been computed *)
C9_Witness == spc = "done" /\ stat_files = <<>>

====
